---- MODULE Spec2Model ----
(***************************************************************************)
(* Model of src/video/encoding_session.rs: VideoEncodingSession (the       *)
(* orchestrator), SampleGenerator (the encoder's pull callback) and        *)
(* SampleWriter (the encoder's push callback).                             *)
(*                                                                         *)
(* Two threads act: the owner's thread, which calls start() and stop() in  *)
(* any order, and the encoder's thread, which calls generate() and write(). *)
(* VideoEncoder and CaptureFrameWait are not part of the source at hand    *)
(* and are modelled from their contracts; the sink writer is the operating *)
(* system's, and the model records the calls made on it.                   *)
(***************************************************************************)
EXTENDS Integers, Sequences, FiniteSets, TLC

\* Bounds of the model.
MaxCalls == 3       \* start()/stop() calls the owner makes
MaxFrames == 2      \* frames the Frame Source delivers
MaxTime == 2        \* largest source timestamp
MaxSide == 1        \* largest width and height of the capture item
IntBits == 4        \* width of the model's i32: values -2^(IntBits-1) .. 2^(IntBits-1)-1

VARIABLES
    built,                  \* new(): "constructing", then "session" or "error"
    pc,                     \* the owner's thread: [op, step, wait]
    startCalls,             \* start() calls begun
    stopCalls,              \* stop() calls begun
    lastCall,               \* the last call that returned: [op, res]
    lastTryStart,           \* what the last try_start() reported
    \* the sink writer, as seen through SampleWriter
    beginCalls,             \* BeginWriting calls made
    armed,                  \* a BeginWriting call has returned Ok
    finalizeCalls,          \* Finalize calls made
    writeCalls,             \* WriteSample calls made
    lastWrite,              \* what the last write() returned
    \* the encoder
    encState,               \* "idle", "running", "done"
    shouldStop,             \* stop() has asked the encoder to stop
    inputEnded,             \* the pull callback has reported None or an error
    pending,                \* samples pulled and not yet pushed
    inWrite,                \* the push callback is inside write()
    tryStartCalls,          \* try_start() calls made
    \* the frame source
    capture,                \* "created", "capturing", "stopped"
    startCaptureCalls,      \* StartCapture calls made
    pulls,                  \* try_get_next_frame() calls made
    pulledTs,               \* source timestamps of the frames pulled
    endSeen,                \* try_get_next_frame() has returned None
    pullsAfterEnd,          \* try_get_next_frame() calls made after that
    \* the generator
    seen_first_time_stamp,
    first_timestamp,
    emitted,                \* the samples generate() returned: [src, ts]
    noneReturns,            \* generate() calls that returned None
    lastGen,                \* the last generate(): [cause, res]
    \* sizes
    item_size,              \* item.Size(): the capture item's natural size
    resolution,             \* the resolution new() is asked for
    input_size,             \* ensure_even_size(item_size), set by new()
    output_size,            \* ensure_even_size(resolution), set by new()
    \* images
    resizable,              \* the capture item is a window, whose size may change
    region,                 \* the D3D11_BOX of the last CopySubresourceRegion
    buffer,                 \* the size of the frame texture it copied from
    content,                \* the content size of the frame it copied from
    largest,                \* the largest width and height copied so far
    compose_texture,        \* the pixels of compose_texture
    output_texture,         \* which frame's image the converter's output texture holds
    allocated               \* the sample textures made so far: which frame's image each holds

ownerVars == <<built, pc, startCalls, stopCalls, lastCall, lastTryStart>>
sinkVars == <<beginCalls, armed, finalizeCalls, writeCalls, lastWrite>>
encVars == <<encState, shouldStop, inputEnded, pending, inWrite, tryStartCalls>>
srcVars == <<capture, startCaptureCalls, pulls, pulledTs, endSeen, pullsAfterEnd>>
sizeVars == <<item_size, resolution, input_size, output_size>>
imageVars == <<resizable, region, buffer, content, largest, compose_texture,
               output_texture, allocated>>
genVars == <<seen_first_time_stamp, first_timestamp, emitted, noneReturns, lastGen,
             sizeVars, imageVars>>
vars == <<ownerVars, sinkVars, encVars, srcVars, genVars>>

Results == {"ok", "err"}

\* An idle owner's thread.
Ready == [op |-> "none", step |-> 0, wait |-> FALSE]

\* The model's i32 and SizeInt32.
MinInt == -(2 ^ (IntBits - 1))
MaxInt == 2 ^ (IntBits - 1) - 1
Int32 == MinInt..MaxInt
SizeInt32 == [Width : Int32, Height : Int32]

\* A size not yet computed.
NoSize == [Width |-> 0, Height |-> 0]

\* A D3D11_BOX of the given width and height at the origin.
Box(width, height) ==
    [left |-> 0, top |-> 0, front |-> 0, right |-> width, bottom |-> height, back |-> 1]

\* CLEAR_COLOR: opaque black, as RGBA.
CLEAR_COLOR == <<0, 0, 0, 1>>

\* The content of a pixel never written.
Uninitialised == <<>>

\* The pixels of a texture of the given size, as <<x, y>>.
Pixels(size) == (0..(size.Width - 1)) \X (0..(size.Height - 1))

\* A texture made by CreateTexture2D without initial data: its pixels by
\* column x and row y.
NewTexture(size) ==
    [x \in 0..(size.Width - 1) |-> [y \in 0..(size.Height - 1) |-> Uninitialised]]

\* The session's state on entry to new(), before any of its calls.
Constructing ==
    /\ built = "constructing"
    /\ pc = Ready
    /\ startCalls = 0
    /\ stopCalls = 0
    /\ lastCall = [op |-> "none", res |-> "none"]
    /\ lastTryStart = "none"
    /\ beginCalls = 0
    /\ armed = FALSE
    /\ finalizeCalls = 0
    /\ writeCalls = 0
    /\ lastWrite = "none"
    /\ encState = "idle"
    /\ shouldStop = FALSE
    /\ inputEnded = FALSE
    /\ pending = 0
    /\ inWrite = FALSE
    /\ tryStartCalls = 0
    /\ capture = "created"
    /\ startCaptureCalls = 0
    /\ pulls = 0
    /\ pulledTs = <<>>
    /\ endSeen = FALSE
    /\ pullsAfterEnd = 0
    /\ seen_first_time_stamp = FALSE
    /\ first_timestamp = 0
    /\ emitted = <<>>
    /\ noneReturns = 0
    /\ lastGen = [cause |-> "none", res |-> "none"]
    /\ input_size = NoSize
    /\ output_size = NoSize
    /\ region = Box(0, 0)
    /\ buffer = NoSize
    /\ content = NoSize
    /\ largest = NoSize
    /\ compose_texture = NewTexture(NoSize)
    /\ output_texture = 0
    /\ allocated = <<>>

\* A session for a monitor of MaxSide x MaxSide pixels, recorded at that size.
Init ==
    /\ Constructing
    /\ item_size = [Width |-> MaxSide, Height |-> MaxSide]
    /\ resolution = [Width |-> MaxSide, Height |-> MaxSide]
    /\ resizable = FALSE

(***************************************************************************)
(* SampleGenerator                                                         *)
(***************************************************************************)

\* The fallible calls of generate_from_frame: get_d3d_interface_from_object,
\* process_texture and CreateTexture2D; "none" when none of them fails.
FailPoints == {"none", "interface", "convert", "alloc"}

\* The frames the Frame Source may deliver next: source timestamps never go
\* back; the content size is the item's or, when the item is resizable, has
\* each side below zero, inside the buffer or beyond it; the frame's texture
\* has the size the frame pool was made with, input_size.
LastTs == IF pulledTs = <<>> THEN 0 ELSE pulledTs[Len(pulledTs)]
ContentSides(side) == {-1, side - 1, side + 1}
ContentSizes ==
    IF resizable
    THEN [Width : ContentSides(input_size.Width), Height : ContentSides(input_size.Height)]
    ELSE {item_size}
Frames ==
    [ts : LastTs..MaxTime, content_size : ContentSizes, desc : {input_size},
     n : {Len(pulledTs) + 1}]

\* The pixels of the n-th frame's texture.
FrameTexture(frame) ==
    [x \in 0..(frame.desc.Width - 1) |->
        [y \in 0..(frame.desc.Height - 1) |-> <<frame.n, x, y>>]]

\* i32::clamp.
clamp(value, min, max) == IF value < min THEN min ELSE IF value > max THEN max ELSE value

\* A copy region that is the content size, unclamped (a mutant of CopyRegion).
CopyRegion_content_size(frame) ==
    Box(frame.content_size.Width, frame.content_size.Height)

\* A copy region clamped from above only (a mutant of CopyRegion).
CopyRegion_no_floor(frame) ==
    Box(IF frame.content_size.Width > frame.desc.Width
        THEN frame.desc.Width ELSE frame.content_size.Width,
        IF frame.content_size.Height > frame.desc.Height
        THEN frame.desc.Height ELSE frame.content_size.Height)

\* The region generate_from_frame copies: the content size clamped to
\* 0..desc.Width and 0..desc.Height of the frame's texture, at the origin. The
\* casts (desc.Width as i32, the clamped value as u32) keep the value: a
\* texture's side is far below the largest i32 and the clamped value is >= 0.
CopyRegion(frame) ==
    LET width == clamp(frame.content_size.Width, 0, frame.desc.Width)
        height == clamp(frame.content_size.Height, 0, frame.desc.Height)
    IN  Box(width, height)

InBox(x, y, box) ==
    /\ box.left <= x /\ x < box.right
    /\ box.top <= y /\ y < box.bottom

\* ClearRenderTargetView: every pixel of the surface gets the colour.
ClearRenderTargetView(surface, colour) ==
    [x \in DOMAIN surface |-> [y \in DOMAIN surface[x] |-> colour]]

\* CopySubresourceRegion(dst, 0, 0, 0, 0, src, 0, box): the box of src lands at
\* the origin of dst.
CopySubresourceRegion(dst, src, box) ==
    [x \in DOMAIN dst |->
        [y \in DOMAIN dst[x] |->
            IF InBox(x, y, box) /\ x \in DOMAIN src /\ y \in DOMAIN src[x]
            THEN src[x][y]
            ELSE dst[x][y]]]

\* A composition that copies without clearing (the mutant of Compose).
Compose_no_clear(surface, src, box) == CopySubresourceRegion(surface, src, box)

\* The composition of generate_from_frame: clear to CLEAR_COLOR, then copy the
\* region of the frame's texture.
Compose(surface, src, box) ==
    CopySubresourceRegion(ClearRenderTargetView(surface, CLEAR_COLOR), src, box)

\* The textures a sample may carry.
ComposeTexture == [kind |-> "compose", n |-> 0]
OutputTexture == [kind |-> "output", n |-> 0]
SampleTextureId(k) == [kind |-> "sample", n |-> k]

\* A sample that carries the converter's output texture itself (the mutant of
\* SampleTexture).
SampleTexture_output(image) == [tex |-> OutputTexture, allocated |-> allocated]

\* The texture of a sample: a new texture (CreateTexture2D) that CopyResource
\* fills with the image of the converter's output texture.
SampleTexture(image) ==
    [tex |-> SampleTextureId(Len(allocated) + 1), allocated |-> Append(allocated, image)]

\* Which frame's image a texture holds.
Image(tex) ==
    IF tex.kind = "sample" THEN allocated[tex.n] ELSE output_texture

\* The images after the rest of generate_from_frame, which may fail at one of its calls:
\* get_d3d_interface_from_object before the composition, process_texture
\* after it, CreateTexture2D after the conversion.
Render(frame, fail) ==
    LET box == CopyRegion(frame)
        composed == fail # "interface"
        converted == fail \notin {"interface", "convert"}
        sample == SampleTexture(frame.n)
    IN  [region |-> IF composed THEN box ELSE region,
         buffer |-> IF composed THEN frame.desc ELSE buffer,
         content |-> IF composed THEN frame.content_size ELSE content,
         largest |-> IF composed
                     THEN [Width |-> IF box.right > largest.Width
                                     THEN box.right ELSE largest.Width,
                           Height |-> IF box.bottom > largest.Height
                                      THEN box.bottom ELSE largest.Height]
                     ELSE largest,
         compose |-> IF composed
                     THEN Compose(compose_texture, FrameTexture(frame), box)
                     ELSE compose_texture,
         output |-> IF converted THEN frame.n ELSE output_texture,
         tex |-> sample.tex,
         allocated |-> IF fail = "none" THEN sample.allocated ELSE allocated]

\* A generate_from_frame that latches the timestamp of every frame, ignoring
\* seen_first_time_stamp (a mutant of generate_from_frame).
generate_from_frame_relatch(seen, first, frame, fail) ==
    [seen |-> TRUE,
     first |-> frame.ts,
     err |-> fail # "none",
     timestamp |-> frame.ts - frame.ts]

\* A generate_from_frame that takes a first_timestamp of 0 for "not yet
\* latched" (a mutant of generate_from_frame).
generate_from_frame_zero_unset(seen, first, frame, fail) ==
    LET first1 == IF first = 0 THEN frame.ts ELSE first
    IN  [seen |-> TRUE,
         first |-> first1,
         err |-> fail # "none",
         timestamp |-> frame.ts - first1]

\* generate_from_frame: latches the first timestamp once and subtracts it from
\* the frame's; then it composes, converts and copies (Render), where any of
\* three calls may fail, after the latch. TimeSpan.Duration is an i64; the model's timestamps stay far
\* from its limits.
generate_from_frame(seen, first, frame, fail) ==
    LET first1 == IF ~seen THEN frame.ts ELSE first
    IN  [seen |-> TRUE,
         first |-> first1,
         err |-> fail # "none",
         timestamp |-> frame.ts - first1]

\* CaptureFrameWait::stop_capture, which may fail: the capture state after it.
stop_capture(r) == IF r = "ok" THEN "stopped" ELSE capture

\* One generate() call whose try_get_next_frame()? fails: the error is returned.
GeneratePullError ==
    /\ lastGen' = [cause |-> "pull_error", res |-> "err"]
    /\ UNCHANGED <<capture, pulledTs, endSeen, seen_first_time_stamp,
                   first_timestamp, emitted, noneReturns>>
    /\ UNCHANGED <<region, buffer, content, largest, compose_texture, output_texture,
                   allocated>>

\* One generate() call that gets a frame: a sample, or on an error of
\* generate_from_frame, stop_capture()? and None.
GenerateFrame ==
    /\ capture = "capturing"
    /\ Len(pulledTs) < MaxFrames
    /\ \E frame \in Frames, fail \in FailPoints, r \in Results :
        LET g == generate_from_frame(seen_first_time_stamp, first_timestamp, frame, fail)
            images == Render(frame, fail)
        IN  /\ pulledTs' = Append(pulledTs, frame.ts)
            /\ seen_first_time_stamp' = g.seen
            /\ first_timestamp' = g.first
            /\ region' = images.region
            /\ buffer' = images.buffer
            /\ content' = images.content
            /\ largest' = images.largest
            /\ compose_texture' = images.compose
            /\ output_texture' = images.output
            /\ allocated' = images.allocated
            /\ IF ~g.err
               THEN /\ emitted' = Append(emitted, [src |-> frame.ts, ts |-> g.timestamp,
                                                   n |-> frame.n, tex |-> images.tex])
                    /\ lastGen' = [cause |-> "frame", res |-> "some"]
                    /\ UNCHANGED capture
               ELSE /\ capture' = stop_capture(r)
                    /\ lastGen' = [cause |-> "step_error",
                                   res |-> IF r = "ok" THEN "none" ELSE "err"]
                    /\ UNCHANGED emitted
    /\ UNCHANGED <<endSeen, noneReturns>>

\* One generate() call that finds no frame: stop_capture()? and None.
GenerateEnd ==
    /\ \E r \in Results :
        /\ capture' = stop_capture(r)
        /\ lastGen' = [cause |-> "exhausted", res |-> IF r = "ok" THEN "none" ELSE "err"]
        /\ noneReturns' = IF r = "ok" THEN noneReturns + 1 ELSE noneReturns
    /\ endSeen' = TRUE
    /\ UNCHANGED <<pulledTs, seen_first_time_stamp, first_timestamp, emitted>>
    /\ UNCHANGED <<region, buffer, content, largest, compose_texture, output_texture,
                   allocated>>

\* SampleGenerator::generate, called by the encoder's pull callback.
generate ==
    /\ pulls' = pulls + 1
    /\ pullsAfterEnd' = IF endSeen THEN pullsAfterEnd + 1 ELSE pullsAfterEnd
    /\ \/ GeneratePullError
       \/ GenerateFrame
       \/ GenerateEnd
    /\ UNCHANGED <<startCaptureCalls, sizeVars, resizable>>

(***************************************************************************)
(* SampleWriter                                                            *)
(***************************************************************************)

\* SampleWriter::start: BeginWriting on the sink, its result returned.
WriterStart(r) ==
    /\ beginCalls' = beginCalls + 1
    /\ armed' = (armed \/ r = "ok")
    /\ UNCHANGED <<finalizeCalls, writeCalls, lastWrite>>

\* SampleWriter::stop: Finalize on the sink, its result returned.
WriterStop(r) ==
    /\ finalizeCalls' = finalizeCalls + 1
    /\ UNCHANGED <<beginCalls, armed, writeCalls, lastWrite>>

\* SampleWriter::write: WriteSample on the sink, its result returned.
WriterWrite(r) ==
    /\ writeCalls' = writeCalls + 1
    /\ lastWrite' = r
    /\ UNCHANGED <<beginCalls, armed, finalizeCalls>>

(***************************************************************************)
(* The encoder's thread                                                    *)
(***************************************************************************)

\* A panic of the owner's thread ends the process.
Alive == pc.op # "panicked"

\* The encoder asks for input: the pull callback runs generate().
EncoderPull ==
    /\ Alive
    /\ encState = "running"
    /\ ~shouldStop
    /\ ~inputEnded
    /\ generate
    /\ IF lastGen'.res = "some"
       THEN pending' = pending + 1 /\ UNCHANGED inputEnded
       ELSE inputEnded' = TRUE /\ UNCHANGED pending
    /\ UNCHANGED <<encState, shouldStop, inWrite, tryStartCalls>>
    /\ UNCHANGED <<ownerVars, sinkVars>>

\* The encoder has output: the push callback enters write().
EncoderPushBegin ==
    /\ Alive
    /\ encState = "running"
    /\ pending > 0
    /\ ~inWrite
    /\ \E r \in Results : WriterWrite(r)
    /\ inWrite' = TRUE
    /\ pending' = pending - 1
    /\ UNCHANGED <<encState, shouldStop, inputEnded, tryStartCalls>>
    /\ UNCHANGED <<ownerVars, srcVars, genVars>>

\* write() returns to the encoder.
EncoderPushEnd ==
    /\ Alive
    /\ inWrite
    /\ inWrite' = FALSE
    /\ UNCHANGED <<encState, shouldStop, inputEnded, pending, tryStartCalls>>
    /\ UNCHANGED <<ownerVars, sinkVars, srcVars, genVars>>

\* The encoder's thread ends: asked to stop or out of input, and drained.
EncoderExit ==
    /\ Alive
    /\ encState = "running"
    /\ shouldStop \/ inputEnded
    /\ pending = 0
    /\ ~inWrite
    /\ encState' = "done"
    /\ UNCHANGED <<shouldStop, inputEnded, pending, inWrite, tryStartCalls>>
    /\ UNCHANGED <<ownerVars, sinkVars, srcVars, genVars>>

(***************************************************************************)
(* VideoEncodingSession: the owner's thread                                *)
(***************************************************************************)

\* Rust's %: the remainder takes the sign of the dividend.
Rem(a, b) == IF a >= 0 THEN a % b ELSE -((-a) % b)

\* An ensure_even that adds one to every value (a mutant of ensure_even).
ensure_even_always_add(value, overflow_checks) ==
    IF value = MaxInt
    THEN [panic |-> overflow_checks,
          value |-> IF overflow_checks THEN value ELSE MinInt]
    ELSE [panic |-> FALSE, value |-> value + 1]

\* An ensure_even that adds the remainder, value + value % 2 (the mutant of
\* ensure_even).
ensure_even_add_rem(value, overflow_checks) ==
    LET sum == value + Rem(value, 2)
    IN  IF sum > MaxInt
        THEN [panic |-> overflow_checks, value |-> IF overflow_checks THEN value ELSE MinInt]
        ELSE [panic |-> FALSE, value |-> sum]

\* ensure_even: value when value % 2 == 0, else value + 1. The addition
\* overflows at the largest i32: a build with overflow checks panics, one
\* without wraps to the smallest i32.
ensure_even(value, overflow_checks) ==
    IF Rem(value, 2) = 0
    THEN [panic |-> FALSE, value |-> value]
    ELSE IF value = MaxInt
         THEN [panic |-> overflow_checks,
               value |-> IF overflow_checks THEN value ELSE MinInt]
         ELSE [panic |-> FALSE, value |-> value + 1]

\* ensure_even_size: ensure_even of the width and of the height.
ensure_even_size(size, overflow_checks) ==
    LET w == ensure_even(size.Width, overflow_checks)
        h == ensure_even(size.Height, overflow_checks)
    IN  [panic |-> w.panic \/ h.panic, Width |-> w.value, Height |-> h.value]

\* The size in the result of ensure_even_size.
SizeOf(e) == [Width |-> e.Width, Height |-> e.Height]

\* The fallible calls of VideoEncodingSession::new, in order: item.Size(),
\* VideoEncoder::new, then in SampleGenerator::new VideoProcessor::new,
\* CreateTexture2D, CreateRenderTargetView and CaptureFrameWait::new, then in
\* SampleWriter::new MFCreateAttributes, MFCreateMFByteStreamOnStreamEx,
\* MFCreateSinkWriterFromURL, AddStream and SetInputMediaType.
NewSteps ==
    <<"item_size", "encoder", "processor", "texture", "render_target", "frame_wait",
      "attributes", "byte_stream", "sink_writer", "add_stream", "input_type">>

\* The position of a step in NewSteps.
StepIndex(name) == CHOOSE i \in 1..Len(NewSteps) : NewSteps[i] = name

\* A new() whose frame source starts capturing as soon as it is created (the
\* mutant of new).
new_capture_started(failAt) ==
    [built |-> IF failAt = 0 THEN "session" ELSE "error",
     armed |-> FALSE,
     capture |-> IF failAt = 0 \/ failAt > StepIndex("frame_wait")
                 THEN "capturing" ELSE "created",
     encState |-> "idle"]

\* VideoEncodingSession::new with its failAt-th call failing (0: none): each call
\* is followed by ?, so the first failure returns the error; none of the calls
\* begins writing, starts capture or starts the encoder.
new(failAt) ==
    [built |-> IF failAt = 0 THEN "session" ELSE "error",
     armed |-> FALSE,
     capture |-> "created",
     encState |-> "idle"]

\* The owner constructs the session: item.Size()?, the two ensure_even_size
\* calls (which may panic), then the rest of new().
New ==
    /\ built = "constructing"
    /\ \E failAt \in 0..Len(NewSteps), overflow_checks \in BOOLEAN :
        LET n == new(failAt)
            in == ensure_even_size(item_size, overflow_checks)
            out == ensure_even_size(resolution, overflow_checks)
        IN  IF failAt # StepIndex("item_size") /\ (in.panic \/ out.panic)
            THEN /\ built' = "panic"
                 /\ UNCHANGED <<armed, capture, encState, input_size, output_size,
                                compose_texture>>
            ELSE /\ built' = n.built
                 /\ armed' = n.armed
                 /\ capture' = n.capture
                 /\ encState' = n.encState
                 /\ input_size' = IF n.built = "session" THEN SizeOf(in) ELSE input_size
                 /\ output_size' = IF n.built = "session" THEN SizeOf(out) ELSE output_size
                 /\ compose_texture' = IF n.built = "session"
                                       THEN NewTexture(SizeOf(in)) ELSE compose_texture
    /\ UNCHANGED <<pc, startCalls, stopCalls, lastCall, lastTryStart>>
    /\ UNCHANGED <<beginCalls, finalizeCalls, writeCalls, lastWrite>>
    /\ UNCHANGED <<shouldStop, inputEnded, pending, inWrite, tryStartCalls>>
    /\ UNCHANGED <<startCaptureCalls, pulls, pulledTs, endSeen, pullsAfterEnd>>
    /\ UNCHANGED <<seen_first_time_stamp, first_timestamp, emitted, noneReturns, lastGen>>
    /\ UNCHANGED <<item_size, resolution>>
    /\ UNCHANGED <<resizable, region, buffer, content, largest, output_texture, allocated>>

\* A start() that arms the writer last (the mutant of StartOrder).
StartOrderWriterLast == <<"capture", "encoder", "writer">>

\* A start() that starts the encoder first (a second mutant of StartOrder).
StartOrderEncoderFirst == <<"encoder", "writer", "capture">>

\* start(): sample_writer.start()?, StartCapture()?, assert!(try_start()?).
StartOrder == <<"writer", "capture", "encoder">>

\* stop(): video_encoder.stop()?, sample_writer.stop()?.
StopOrder == <<"encoder", "writer">>

\* The owner calls start(); nothing in the session refuses the call.
CallStart ==
    /\ built = "session"
    /\ pc = Ready
    /\ startCalls + stopCalls < MaxCalls
    /\ pc' = [op |-> "start", step |-> 1, wait |-> FALSE]
    /\ startCalls' = startCalls + 1
    /\ UNCHANGED <<built, stopCalls, lastCall, lastTryStart>>
    /\ UNCHANGED <<sinkVars, encVars, srcVars, genVars>>

\* The owner calls stop(); nothing in the session refuses the call.
CallStop ==
    /\ built = "session"
    /\ pc = Ready
    /\ startCalls + stopCalls < MaxCalls
    /\ pc' = [op |-> "stop", step |-> 1, wait |-> FALSE]
    /\ stopCalls' = stopCalls + 1
    /\ UNCHANGED <<built, startCalls, lastCall, lastTryStart>>
    /\ UNCHANGED <<sinkVars, encVars, srcVars, genVars>>

\* After a step of start() or stop() that returned r: `?` returns an error at
\* once, Ok goes on to the next step, and the last step's Ok is the call's.
Proceed(order, r) ==
    IF r = "ok" /\ pc.step < Len(order)
    THEN /\ pc' = [op |-> pc.op, step |-> pc.step + 1, wait |-> FALSE]
         /\ UNCHANGED lastCall
    ELSE /\ pc' = Ready
         /\ lastCall' = [op |-> pc.op, res |-> r]

\* start(): self.sample_writer.start()?
StartWriter ==
    /\ pc.op = "start"
    /\ StartOrder[pc.step] = "writer"
    /\ \E r \in Results : WriterStart(r) /\ Proceed(StartOrder, r)
    /\ UNCHANGED <<built, startCalls, stopCalls, lastTryStart>>
    /\ UNCHANGED <<encVars, srcVars, genVars>>

\* start(): self.capture_session.StartCapture()?  A capture that was stopped
\* stays stopped.
StartCapture ==
    /\ pc.op = "start"
    /\ StartOrder[pc.step] = "capture"
    /\ \E r \in Results :
        /\ capture' = IF r = "ok" /\ capture = "created" THEN "capturing" ELSE capture
        /\ Proceed(StartOrder, r)
    /\ startCaptureCalls' = startCaptureCalls + 1
    /\ UNCHANGED <<pulls, pulledTs, endSeen, pullsAfterEnd>>
    /\ UNCHANGED <<built, startCalls, stopCalls, lastTryStart>>
    /\ UNCHANGED <<sinkVars, encVars, genVars>>

\* start(): assert!(self.video_encoder.try_start()?)  The encoder starts once:
\* try_start() reports true and the encoder's thread runs, or false, or an error.
\* On false the assertion panics.
StartEncoder ==
    /\ pc.op = "start"
    /\ StartOrder[pc.step] = "encoder"
    /\ tryStartCalls' = tryStartCalls + 1
    /\ \/ /\ encState = "idle"
          /\ encState' = "running"
          /\ lastTryStart' = "true"
          /\ Proceed(StartOrder, "ok")
       \/ /\ lastTryStart' = "false"
          /\ pc' = [op |-> "panicked", step |-> 0, wait |-> FALSE]
          /\ lastCall' = [op |-> "start", res |-> "panic"]
          /\ UNCHANGED encState
       \/ /\ lastTryStart' = "err"
          /\ Proceed(StartOrder, "err")
          /\ UNCHANGED encState
    /\ UNCHANGED <<shouldStop, inputEnded, pending, inWrite>>
    /\ UNCHANGED <<built, startCalls, stopCalls>>
    /\ UNCHANGED <<sinkVars, srcVars, genVars>>

\* stop(): self.video_encoder.stop()?  A running encoder is told to stop and the
\* call waits for its thread; otherwise there is nothing to wait for.
StopEncoder ==
    /\ pc.op = "stop"
    /\ StopOrder[pc.step] = "encoder"
    /\ ~pc.wait
    /\ IF encState = "running"
       THEN /\ shouldStop' = TRUE
            /\ pc' = [pc EXCEPT !.wait = TRUE]
            /\ UNCHANGED lastCall
       ELSE /\ \E r \in Results : Proceed(StopOrder, r)
            /\ UNCHANGED shouldStop
    /\ UNCHANGED <<encState, inputEnded, pending, inWrite, tryStartCalls>>
    /\ UNCHANGED <<built, startCalls, stopCalls, lastTryStart>>
    /\ UNCHANGED <<sinkVars, srcVars, genVars>>

\* video_encoder.stop() returns once the encoder's thread has ended.
StopEncoderJoin ==
    /\ pc.op = "stop"
    /\ pc.wait
    /\ encState = "done"
    /\ \E r \in Results : Proceed(StopOrder, r)
    /\ UNCHANGED <<built, startCalls, stopCalls, lastTryStart>>
    /\ UNCHANGED <<sinkVars, encVars, srcVars, genVars>>

\* stop(): self.sample_writer.stop()?
StopWriter ==
    /\ pc.op = "stop"
    /\ StopOrder[pc.step] = "writer"
    /\ \E r \in Results : WriterStop(r) /\ Proceed(StopOrder, r)
    /\ UNCHANGED <<built, startCalls, stopCalls, lastTryStart>>
    /\ UNCHANGED <<encVars, srcVars, genVars>>

Next ==
    \/ New
    \/ CallStart
    \/ StartWriter
    \/ StartCapture
    \/ StartEncoder
    \/ CallStop
    \/ StopEncoder
    \/ StopEncoderJoin
    \/ StopWriter
    \/ EncoderPull
    \/ EncoderPushBegin
    \/ EncoderPushEnd
    \/ EncoderExit

Spec == Init /\ [][Next]_vars

\* Fair scheduling: the encoder's thread keeps running its callbacks, and a
\* start() or stop() that has been called goes on to its next step. Whether the
\* owner calls start() or stop() at all is the owner's choice.
Fairness ==
    /\ WF_vars(EncoderPull)
    /\ WF_vars(EncoderPushBegin)
    /\ WF_vars(EncoderPushEnd)
    /\ WF_vars(EncoderExit)
    /\ WF_vars(StartWriter)
    /\ WF_vars(StartCapture)
    /\ WF_vars(StartEncoder)
    /\ WF_vars(StopEncoder)
    /\ WF_vars(StopEncoderJoin)
    /\ WF_vars(StopWriter)

FairSpec == Init /\ [][Next]_vars /\ Fairness

\* new() for every requested resolution.
InitEven ==
    /\ Constructing
    /\ item_size = [Width |-> MaxSide, Height |-> MaxSide]
    /\ resolution \in SizeInt32
    /\ resizable = FALSE

SpecEven == InitEven /\ [][New]_vars

\* A session that records a window of MaxSide x MaxSide pixels whose content
\* changes size at will, after new() and start() have returned Ok: the encoder
\* pulls and pushes until the frames end.
InitWindow ==
    /\ built = "session"
    /\ pc = Ready
    /\ startCalls = 1
    /\ stopCalls = 0
    /\ lastCall = [op |-> "start", res |-> "ok"]
    /\ lastTryStart = "true"
    /\ beginCalls = 1
    /\ armed = TRUE
    /\ finalizeCalls = 0
    /\ writeCalls = 0
    /\ lastWrite = "none"
    /\ encState = "running"
    /\ shouldStop = FALSE
    /\ inputEnded = FALSE
    /\ pending = 0
    /\ inWrite = FALSE
    /\ tryStartCalls = 1
    /\ capture = "capturing"
    /\ startCaptureCalls = 1
    /\ pulls = 0
    /\ pulledTs = <<>>
    /\ endSeen = FALSE
    /\ pullsAfterEnd = 0
    /\ seen_first_time_stamp = FALSE
    /\ first_timestamp = 0
    /\ emitted = <<>>
    /\ noneReturns = 0
    /\ lastGen = [cause |-> "none", res |-> "none"]
    /\ item_size = [Width |-> MaxSide, Height |-> MaxSide]
    /\ resolution = [Width |-> MaxSide, Height |-> MaxSide]
    /\ input_size = SizeOf(ensure_even_size(item_size, FALSE))
    /\ output_size = SizeOf(ensure_even_size(resolution, FALSE))
    /\ resizable = TRUE
    /\ region = Box(0, 0)
    /\ buffer = NoSize
    /\ content = NoSize
    /\ largest = NoSize
    /\ compose_texture = NewTexture(input_size)
    /\ output_texture = 0
    /\ allocated = <<>>

NextWindow ==
    \/ EncoderPull
    \/ EncoderPushBegin
    \/ EncoderPushEnd
    \/ EncoderExit

SpecWindow == InitWindow /\ [][NextWindow]_vars

(***************************************************************************)
(* Properties                                                              *)
(***************************************************************************)

\* C1: stop() finalizes the writer only after the encoder has been drained and
\* stopped: when Finalize is called the encoder is not running, holds no sample
\* and no write() is in flight, and no write() starts once Finalize was called.
C1_WritesBeforeFinalize ==
    [][/\ finalizeCalls' > finalizeCalls =>
            (encState # "running" /\ pending = 0 /\ ~inWrite)
       /\ writeCalls' > writeCalls => finalizeCalls = 0]_vars

\* C2: however often stop() is called, Finalize is performed at most once.
C2_FinalizeAtMostOnce == finalizeCalls <= 1

\* C3: once SampleWriter.stop() was called, a write() returns an error and makes
\* no WriteSample call on the sink.
C3_NoWriteAfterStop ==
    [][(finalizeCalls > 0 /\ inWrite' /\ ~inWrite) =>
            (writeCalls' = writeCalls /\ lastWrite' = "err")]_vars

\* C4: once the Frame Source has reported exhaustion, generate() has returned
\* None exactly once for it and try_get_next_frame() is not called again.
C4_EndOfStreamOnce == endSeen => (noneReturns = 1 /\ pullsAfterEnd = 0)

\* C5: a generate() call in which pulling the frame or a later step failed has
\* stopped capture and returned None, never an error.
C5_StepErrorsAbsorbed ==
    lastGen.cause \in {"pull_error", "step_error"} =>
        (lastGen.res = "none" /\ capture = "stopped")

\* The timestamps generate() gives to frames with source timestamps tss, all of
\* them generated without error.
RECURSIVE Timestamps(_, _, _)
Timestamps(seen, first, tss) ==
    IF tss = <<>>
    THEN <<>>
    ELSE LET frame == [ts |-> Head(tss), content_size |-> input_size,
                       desc |-> input_size, n |-> 1]
             g == generate_from_frame(seen, first, frame, "none")
         IN  <<g.timestamp>> \o Timestamps(g.seen, g.first, Tail(tss))

\* C6: the emitted timestamps are non-negative and non-decreasing, the first is
\* 0, and each is its frame's source timestamp minus that of the first frame
\* pulled; source timestamps 1000, 1500, 2200 give 0, 500, 1200.
C6_RelativeTimestamps ==
    /\ \A i \in 1..Len(emitted) :
        /\ emitted[i].ts >= 0
        /\ emitted[i].ts = emitted[i].src - pulledTs[1]
    /\ \A i, j \in 1..Len(emitted) : i <= j => emitted[i].ts <= emitted[j].ts
    /\ emitted # <<>> => emitted[1].ts = 0
    /\ Timestamps(FALSE, 0, <<1000, 1500, 2200>>) = <<0, 500, 1200>>

\* Two samples emitted, the first frame's source timestamp not 0 and the second
\* sample later than the first.
C6_Witness ==
    /\ Len(emitted) = 2
    /\ pulledTs[1] > 0
    /\ emitted[2].ts > 0

\* C7: when try_start() reports false or an error, start() does not crash: it
\* returns an error, and the owner goes on (to stop()).
C7_StartFailureNoCrash ==
    lastTryStart \in {"false", "err"} =>
        /\ pc.op # "panicked"
        /\ lastCall.op = "start" => lastCall.res = "err"

\* C8: after a stop() that returned an error the encoder is not running and the
\* writer is not left open (armed and never finalized).
C8_StopFailureTearsDown ==
    (pc = Ready /\ lastCall = [op |-> "stop", res |-> "err"]) =>
        (encState # "running" /\ ~(armed /\ finalizeCalls = 0))

\* C9: start() arms the writer, starts capture and starts the encoder only from
\* Idle (the encoder never started, stop() never called), and once stop() has
\* been called no later call finalizes the writer again.
C9_Lifecycle ==
    [][/\ (\/ beginCalls' # beginCalls
           \/ startCaptureCalls' # startCaptureCalls
           \/ tryStartCalls' # tryStartCalls) => (encState = "idle" /\ stopCalls = 0)
       /\ finalizeCalls' # finalizeCalls => stopCalls = 1]_vars

\* C10: a BeginWriting call has returned Ok before any WriteSample call is made.
C10_ArmedBeforeWrite == [][writeCalls' > writeCalls => armed]_vars

\* A sample has been written, after BeginWriting.
C10_Witness == writeCalls > 0 /\ beginCalls > 0

\* C11: start() arms the writer, then starts capture, then starts the encoder:
\* no StartCapture call without a BeginWriting call before it in the same
\* start(), no try_start() call without both, and whenever the encoder has been
\* started or generate() has pulled, the writer is armed and capture was started.
C11_StartOrder ==
    /\ beginCalls >= startCaptureCalls
    /\ startCaptureCalls >= tryStartCalls
    /\ (encState # "idle" \/ pulls > 0) => (armed /\ capture # "created")

\* The encoder runs and has pulled from the generator.
C11_Witness == encState = "running" /\ pulls > 0 /\ tryStartCalls = 1

\* C12: when a step of new() fails, new() returns the error and nothing is left
\* running: the writer has not begun writing, capture and the encoder have not
\* been started, and no callback has run.
C12_FailedNewLeavesNothing ==
    built = "error" =>
        /\ ~armed /\ beginCalls = 0
        /\ capture = "created" /\ startCaptureCalls = 0
        /\ encState = "idle" /\ tryStartCalls = 0
        /\ pulls = 0 /\ writeCalls = 0

\* new() has failed.
C12_Witness == built = "error" /\ pc = Ready

IsEven(v) == Rem(v, 2) = 0

IsEvenSize(size) == IsEven(size.Width) /\ IsEven(size.Height)

HasMaxInt(size) == size.Width = MaxInt \/ size.Height = MaxInt

C20_AddsRemainder ==
    /\ built # "panic"
    /\ built = "session" =>
           /\ output_size.Width = resolution.Width + Rem(resolution.Width, 2)
           /\ output_size.Height = resolution.Height + Rem(resolution.Height, 2)

\* The least even integer that is at least v.
EvenCeiling(v) == CHOOSE e \in v..(v + 1) : IsEven(e)

\* What ensure_even makes of v when it returns: the least even integer that
\* is at least v, which is v + v % 2 for v >= 0 and v - v % 2 for v < 0, and
\* the smallest i32 for the largest i32 (the wrapped sum).
RoundedUp(v, r) ==
    IF v = MaxInt
    THEN r = MinInt
    ELSE /\ r = EvenCeiling(v)
         /\ v >= 0 => r = v + Rem(v, 2)
         /\ v < 0 => r = v - Rem(v, 2)

\* C20 (amended): for every i32 width and height other than the largest i32,
\* ensure_even_size returns the least even integers that are at least the
\* width and the height: width + width % 2 for a width >= 0, but
\* width - width % 2, that is width + 1, for an odd negative width. At the
\* largest i32 the addition overflows: a build that checks overflow panics,
\* a build that does not returns the smallest i32.
C20_RoundsUp ==
    /\ built = "panic" => HasMaxInt(resolution) \/ HasMaxInt(item_size)
    /\ built = "session" =>
           /\ RoundedUp(resolution.Width, output_size.Width)
           /\ RoundedUp(resolution.Height, output_size.Height)
           /\ RoundedUp(item_size.Width, input_size.Width)
           /\ RoundedUp(item_size.Height, input_size.Height)

\* new() has rounded an odd negative width.
C20_Witness ==
    /\ built = "session"
    /\ resolution.Width < 0 /\ ~IsEven(resolution.Width)
    /\ output_size.Width = resolution.Width + 1

\* The sizes a frame texture may have in the check of CopyRegion: d wide and
\* as much below MaxSide + 1 high.
DescSizes == {[Width |-> d, Height |-> MaxSide + 1 - d] : d \in 0..(MaxSide + 1)}

\* The content sizes in the check of CopyRegion: from below zero to above
\* every DescSizes, c wide and as much below MaxSide + 1 high.
AnyContentSizes ==
    {[Width |-> c, Height |-> MaxSide + 1 - c] : c \in (-1)..(MaxSide + 2)}

\* C13: the region copied from any frame, whose content size may exceed the
\* frame's buffer or be negative, starts at the origin and has
\* 0 <= width <= the buffer's width and 0 <= height <= the buffer's height;
\* a content size within the buffer is the region's size.
C13_RegionWithinBuffer ==
    /\ region.left = 0 /\ region.top = 0
    /\ 0 <= region.right /\ region.right <= buffer.Width
    /\ 0 <= region.bottom /\ region.bottom <= buffer.Height
    /\ \A c \in AnyContentSizes, d \in DescSizes :
          LET box == CopyRegion([ts |-> 0, content_size |-> c, desc |-> d, n |-> 1])
          IN  /\ box.left = 0 /\ box.top = 0 /\ box.front = 0 /\ box.back = 1
              /\ 0 <= box.right /\ box.right <= d.Width
              /\ 0 <= box.bottom /\ box.bottom <= d.Height
              /\ (0 <= c.Width /\ c.Width <= d.Width) => box.right = c.Width
              /\ (0 <= c.Height /\ c.Height <= d.Height) => box.bottom = c.Height

\* A sample made from a frame whose content is wider than its buffer and has
\* a negative height.
C13_Witness ==
    /\ lastGen.res = "some"
    /\ content.Width > buffer.Width /\ content.Height < 0
    /\ region = Box(buffer.Width, 0)

\* The width and height of a texture's pixels.
TextureSize(texture) ==
    [Width |-> Cardinality(DOMAIN texture),
     Height |-> IF DOMAIN texture = {} THEN 0 ELSE Cardinality(DOMAIN texture[0])]

\* C14: the composition surface keeps the size new() gave it,
\* ensure_even_size of the item's size, and every region copied fits within
\* it; content of 2000x2000 against a surface of 1920x1080 gives a region of
\* exactly 1920x1080, and no error.
C14_RegionWithinSurface ==
    /\ built = "session" =>
           /\ input_size = SizeOf(ensure_even_size(item_size, FALSE))
           /\ TextureSize(compose_texture) = input_size
    /\ region.right <= input_size.Width
    /\ region.bottom <= input_size.Height
    /\ (lastGen.cause = "frame" /\ content.Width >= input_size.Width
           /\ content.Height >= input_size.Height) =>
          (lastGen.res = "some" /\ region = Box(input_size.Width, input_size.Height))
    /\ CopyRegion([ts |-> 0, content_size |-> [Width |-> 2000, Height |-> 2000],
                   desc |-> [Width |-> 1920, Height |-> 1080], n |-> 1])
          = Box(1920, 1080)

\* A sample made from a frame whose content exceeds the composition surface
\* both ways.
C14_Witness ==
    /\ lastGen.res = "some"
    /\ content.Width > input_size.Width /\ content.Height > input_size.Height
    /\ region = Box(input_size.Width, input_size.Height)

\* C16: after every generate() that emits a sample, every pixel of the
\* composition surface outside the copied region holds CLEAR_COLOR and every
\* pixel inside it is the frame's: nothing of an earlier, larger frame remains.
C16_BackgroundOutsideRegion ==
    lastGen.res = "some" =>
        \A p \in Pixels(input_size) :
            compose_texture[p[1]][p[2]] =
                IF InBox(p[1], p[2], region)
                THEN <<Len(pulledTs), p[1], p[2]>>
                ELSE CLEAR_COLOR

\* A sample made from a frame whose region is smaller than an earlier frame's.
C16_Witness ==
    /\ lastGen.res = "some"
    /\ Len(pulledTs) = 2
    /\ region.right < largest.Width /\ region.bottom < largest.Height
    /\ compose_texture[largest.Width - 1][largest.Height - 1] = CLEAR_COLOR

\* C17: every sample emitted carries a texture of its own, which is neither
\* the composition surface nor the converter's output texture nor the texture
\* of another sample, and which still holds the image of the sample's frame
\* after every later generate().
C17_FreshSampleTexture ==
    \A i \in 1..Len(emitted) :
        /\ emitted[i].tex.kind = "sample"
        /\ emitted[i].tex \notin {ComposeTexture, OutputTexture}
        /\ Image(emitted[i].tex) = emitted[i].n
        /\ \A j \in 1..Len(emitted) : j # i => emitted[j].tex # emitted[i].tex

\* Two samples, the converter's output texture holding the second frame and
\* the first sample's texture still the first.
C17_Witness ==
    /\ Len(emitted) = 2
    /\ output_texture = emitted[2].n
    /\ Image(emitted[1].tex) = emitted[1].n
    /\ emitted[1].n # emitted[2].n

\* C18: the baseline is latched by the first frame pulled and stays that
\* frame's timestamp through every later generate(), whether it emits, fails
\* or finds the end; a first timestamp of 0 is latched like any other.
C18_BaselineLatchedOnce ==
    /\ seen_first_time_stamp = (pulledTs # <<>>)
    /\ seen_first_time_stamp => first_timestamp = pulledTs[1]

\* A first frame with timestamp 0, a later frame with a later timestamp, and
\* the baseline still 0.
C18_Witness ==
    /\ Len(pulledTs) = 2
    /\ pulledTs[1] = 0 /\ pulledTs[2] > 0
    /\ seen_first_time_stamp /\ first_timestamp = 0

\* The one stop() of a session whose one start() returned Ok has returned.
StopOfRunningReturned ==
    /\ startCalls = 1 /\ lastTryStart = "true"
    /\ stopCalls = 1 /\ lastCall.op = "stop"
    /\ pc = Ready

\* Under fair scheduling a stop() that has been called returns.
StopReturns == (pc.op = "stop") ~> (pc = Ready /\ lastCall.op = "stop")

\* C19: under fair scheduling a stop() called on a Running session returns
\* with the encoder stopped and the writer finalized. (That it returns is
\* StopReturns; this is the state it returns in.)
C19_StopLeavesStoppedAndFinalized ==
    StopOfRunningReturned => (encState = "done" /\ finalizeCalls = 1)

====
